---------------------------- MODULE Spec2Model ----------------------------
(***************************************************************************)
(* Model of two GraphQL resolvers of talawa-api:                           *)
(*   - Comment.upVoters : keyset-paginated connection over comment votes   *)
(*   - Mutation.updateFund : check-then-update of a fund                   *)
(* The database is the shared state; every database round trip of a        *)
(* resolver (an await) is one step.                                        *)
(***************************************************************************)
EXTENDS Integers, Sequences, FiniteSets, Bags, TLC

VARIABLES
    votes,      \* commentVotesTable: the bag of its rows
    q,          \* the upVoters request being answered: <<>> or <<request + response>>
    funds,      \* fundsTable: fund id -> row
    pc,         \* position of each updateFund call
    call,       \* each call's context and arguments
    currentUser,    \* result of the usersTable lookup of each call
    existingFund,   \* result of the fundsTable lookup of each call
    lookedUp,       \* which of the two Promise.all queries have completed
    result,     \* what each call returned or threw
    pre         \* fund table when the call started (sequential specification only)

vars == <<votes, q, funds, pc, call, currentUser, existingFund, lookedUp, result, pre>>
voteVars == <<votes, q>>
fundVars == <<funds, pc, call, currentUser, existingFund, lookedUp, result, pre>>

(***************************************************************************)
(* Optional values: JavaScript undefined and SQL NULL are the empty        *)
(* sequence, a present value v is <<v>>.                                   *)
(***************************************************************************)
undefined == <<>>
NULL == <<>>
Some(v) == <<v>>

(***************************************************************************)
(*                            Comment.upVoters                             *)
(***************************************************************************)

\* Bounds of the vote table and of the request arguments.
MaxVotes == 3
MaxLimit == 2

CommentIds == {"c1", "c2"}
ParentIds == {"c1"}
VoteTypes == {"up_vote", "down_vote"}
CreatorIds == {1, 2}
Timestamps == {1, 2}

\* A row of commentVotesTable; creatorId is nullable.
VoteRows ==
    [commentId : CommentIds,
     creatorId : {NULL} \cup {Some(u) : u \in CreatorIds},
     type : VoteTypes,
     createdAt : Timestamps]

\* SQL's three truth values.
SqlBool(b) == IF b THEN "true" ELSE "false"

\* drizzle eq(a, b): a = b, NULL when an operand is NULL.
eq(a, b) == IF a = NULL \/ b = NULL THEN "null" ELSE SqlBool(a[1] = b[1])

\* drizzle ne(a, b): a <> b, NULL when an operand is NULL.
ne(a, b) == IF a = NULL \/ b = NULL THEN "null" ELSE SqlBool(a[1] # b[1])

\* drizzle gt(a, b): a > b, NULL when an operand is NULL.
gt(a, b) == IF a = NULL \/ b = NULL THEN "null" ELSE SqlBool(a[1] > b[1])

\* drizzle lt(a, b): a < b, NULL when an operand is NULL.
lt(a, b) == IF a = NULL \/ b = NULL THEN "null" ELSE SqlBool(a[1] < b[1])

\* drizzle and(...): SQL AND over the conditions.
and(conds) ==
    IF \E i \in DOMAIN conds : conds[i] = "false" THEN "false"
    ELSE IF \E i \in DOMAIN conds : conds[i] = "null" THEN "null"
    ELSE "true"

\* drizzle or(...): SQL OR over the conditions.
or(conds) ==
    IF \E i \in DOMAIN conds : conds[i] = "true" THEN "true"
    ELSE IF \E i \in DOMAIN conds : conds[i] = "null" THEN "null"
    ELSE "false"

\* exists(select ... where createdAt, creatorId, commentId, type match the cursor).
exists(table, parent, cursor) ==
    SqlBool(\E r \in BagToSet(table) :
        and(<<eq(Some(r.createdAt), Some(cursor.createdAt)),
              eq(r.creatorId, Some(cursor.creatorId)),
              eq(Some(r.commentId), Some(parent)),
              eq(Some(r.type), Some("up_vote"))>>) = "true")

\* The raw cursor argument after base64url and JSON decoding: text that does
\* not decode, or a JSON object whose creatorId may be null.
RawCursors ==
    [decodes : {FALSE}, createdAt : {1}, creatorId : {NULL}]
    \cup [decodes : {TRUE}, createdAt : Timestamps,
          creatorId : {NULL} \cup {Some(u) : u \in CreatorIds}]

\* cursorSchema: createdAt and a non-null creatorId are both required.
cursorSchema(raw) == raw.decodes /\ raw.creatorId # NULL

\* upVotersArgumentsSchema: the cursor is decoded and parsed; a failure is an
\* issue on "before" (inverse) or "after" (forward).
upVotersArgumentsSchema(arg) ==
    IF arg.cursor = undefined
    THEN [success |-> TRUE, cursor |-> undefined,
          isInversed |-> arg.isInversed, limit |-> arg.limit, path |-> <<>>]
    ELSE IF cursorSchema(arg.cursor[1])
    THEN [success |-> TRUE,
          cursor |-> Some([createdAt |-> arg.cursor[1].createdAt,
                           creatorId |-> arg.cursor[1].creatorId[1]]),
          isInversed |-> arg.isInversed, limit |-> arg.limit, path |-> <<>>]
    ELSE [success |-> FALSE, cursor |-> undefined,
          isInversed |-> arg.isInversed, limit |-> arg.limit,
          path |-> <<IF arg.isInversed THEN "before" ELSE "after">>]

\* The where clause of the findMany, evaluated on one row.
where(table, row, parent, cursor, isInversed) ==
    IF isInversed
    THEN IF cursor # undefined
         THEN and(<<exists(table, parent, cursor[1]),
                    eq(Some(row.commentId), Some(parent)),
                    eq(Some(row.type), Some("up_vote")),
                    or(<<and(<<eq(Some(row.createdAt), Some(cursor[1].createdAt)),
                               gt(row.creatorId, Some(cursor[1].creatorId))>>),
                         gt(Some(row.createdAt), Some(cursor[1].createdAt))>>)>>)
         ELSE and(<<ne(row.creatorId, NULL),
                    eq(Some(row.commentId), Some(parent)),
                    eq(Some(row.type), Some("up_vote"))>>)
    ELSE IF cursor # undefined
         THEN and(<<exists(table, parent, cursor[1]),
                    eq(Some(row.commentId), Some(parent)),
                    eq(Some(row.type), Some("up_vote")),
                    or(<<and(<<eq(Some(row.createdAt), Some(cursor[1].createdAt)),
                               lt(row.creatorId, Some(cursor[1].creatorId))>>),
                         lt(Some(row.createdAt), Some(cursor[1].createdAt))>>)>>)
         ELSE and(<<ne(row.creatorId, NULL),
                    eq(Some(row.commentId), Some(parent)),
                    eq(Some(row.type), Some("up_vote"))>>)

\* Ascending order on (createdAt, creatorId); NULL sorts after every value.
KeyBefore(a, b) ==
    \/ a.createdAt < b.createdAt
    \/ /\ a.createdAt = b.createdAt
       /\ a.creatorId # NULL
       /\ (b.creatorId = NULL \/ a.creatorId[1] < b.creatorId[1])

\* orderBy: asc(createdAt), asc(creatorId) when inverse, desc, desc otherwise.
orderBy(a, b, isInversed) == IF isInversed THEN KeyBefore(a, b) ELSE KeyBefore(b, a)

\* The rows of the table, each copy of a row on its own.
Entries(table) ==
    UNION {{<<r, k>> : k \in 1..CopiesIn(r, table)} : r \in BagToSet(table)}

\* The selected rows in orderBy order (rows with equal keys in any order).
Sorted(selected, isInversed) ==
    CHOOSE s \in [1..Cardinality(selected) -> selected] :
        /\ \A i, j \in DOMAIN s : i # j => s[i] # s[j]
        /\ \A i, j \in DOMAIN s :
              i < j => ~orderBy(s[j][1], s[i][1], isInversed)

\* findMany: the rows the where clause accepts, ordered, the first `limit`,
\* with columns createdAt and creatorId and the joined creator.
findMany(table, parent, cursor, isInversed, limit) ==
    LET selected == {e \in Entries(table) :
                        where(table, e[1], parent, cursor, isInversed) = "true"}
        s == Sorted(selected, isInversed)
        n == IF Cardinality(selected) < limit THEN Cardinality(selected) ELSE limit
    IN  [k \in 1..n |-> [createdAt |-> s[k][1].createdAt,
                         creatorId |-> s[k][1].creatorId,
                         creator |-> s[k][1].creatorId]]

\* Slip: the error is raised for every empty result, cursor or not.
CursorHasNoRows_AnyEmptyResult(cursor, commentVotes) == Len(commentVotes) = 0

\* The guard of the arguments_associated_resources_not_found error.
CursorHasNoRows(cursor, commentVotes) == cursor # undefined /\ Len(commentVotes) = 0

\* createCursor: the (createdAt, creatorId) pair of a vote, encoded.
createCursor(vote) ==
    [decodes |-> TRUE, createdAt |-> vote.createdAt, creatorId |-> vote.creatorId]

\* SelectSeq's test for rawNodes: the vote's creator is not null.
HasCreator(vote) == vote.creator # NULL

\* The resolver: request in, error or the arguments of the connection out.
upVotersResolve(table, parent, args) ==
    LET parsedArgs == upVotersArgumentsSchema(args) IN
    IF ~parsedArgs.success
    THEN [code |-> "invalid_arguments", path |-> parsedArgs.path,
          commentVotes |-> <<>>, rawNodes |-> <<>>, cursors |-> <<>>]
    ELSE LET commentVotes == findMany(table, parent, parsedArgs.cursor,
                                      parsedArgs.isInversed, parsedArgs.limit)
             rawNodes == SelectSeq(commentVotes, HasCreator)
         IN  IF CursorHasNoRows(parsedArgs.cursor, commentVotes)
             THEN [code |-> "arguments_associated_resources_not_found",
                   path |-> <<IF parsedArgs.isInversed THEN "before" ELSE "after">>,
                   commentVotes |-> commentVotes, rawNodes |-> <<>>, cursors |-> <<>>]
             ELSE [code |-> "ok", path |-> <<>>,
                   commentVotes |-> commentVotes, rawNodes |-> rawNodes,
                   cursors |-> [k \in DOMAIN rawNodes |-> createCursor(rawNodes[k])]]

\* The connection arguments after transformDefaultGraphQLConnectionArguments.
UpVotersArgs ==
    [cursor : {undefined} \cup {Some(c) : c \in RawCursors},
     isInversed : BOOLEAN,
     limit : 1..MaxLimit]

\* At most one vote per (commentId, creatorId) when the creator is not null.
VoteIsNew(row) ==
    row.creatorId = NULL
    \/ \A r \in BagToSet(votes) :
          ~(r.commentId = row.commentId /\ r.creatorId = row.creatorId)

\* Another actor votes on a comment (or a vote is left by a deleted user). The
\* resolver reads the table in one statement, so other actors act between requests.
InsertVote(row) ==
    /\ q = <<>>
    /\ BagCardinality(votes) < MaxVotes
    /\ VoteIsNew(row)
    /\ votes' = votes (+) SetToBag({row})
    /\ UNCHANGED <<q, fundVars>>

\* Another actor removes a vote.
DeleteVote(row) ==
    /\ q = <<>>
    /\ BagIn(row, votes)
    /\ votes' = votes (-) SetToBag({row})
    /\ UNCHANGED <<q, fundVars>>

\* One upVoters request: the single findMany and the response built from it.
UpVoters(parent, args) ==
    /\ q = <<>>
    /\ q' = Some([parent |-> parent, args |-> args,
                  response |-> upVotersResolve(votes, parent, args)])
    /\ UNCHANGED <<votes, fundVars>>

\* The response is delivered.
Respond ==
    /\ q # <<>>
    /\ q' = <<>>
    /\ UNCHANGED <<votes, fundVars>>

(***************************************************************************)
(*                           Mutation.updateFund                           *)
(***************************************************************************)

Procs == {"p1", "p2"}
OrganizationIds == {"o1", "o2"}
FundIds == {"f1", "f2", "f3"}
Names == {"a", "b", "c"}

\* usersTable: the user records and their global roles; "gone" has no record.
usersTable == [u \in {"ga", "oa", "nm"} |-> IF u = "ga" THEN "administrator" ELSE "regular"]
UserIds == {"ga", "oa", "nm", "gone"}

\* organizationMembershipsTable: <<memberId, organizationId>> -> role.
organizationMemberships ==
    [m \in {<<"oa", "o1">>, <<"nm", "o1">>} |->
        IF m[1] = "oa" THEN "administrator" ELSE "regular"]

\* The organization each fund was created in.
FundOrganization == [f \in FundIds |-> IF f = "f3" THEN "o2" ELSE "o1"]

\* No two funds of one organization share a name.
NamesUniquePerOrganization(table) ==
    \A f, g \in DOMAIN table :
        (f # g /\ table[f].organizationId = table[g].organizationId)
            => table[f].name # table[g].name

\* The fund tables the program starts from.
InitialFundTables ==
    {t \in [FundIds -> [name : Names, isTaxDeductible : {FALSE},
                        organizationId : OrganizationIds, updaterId : {NULL}]] :
        /\ \A f \in FundIds : t[f].organizationId = FundOrganization[f]
        /\ NamesUniquePerOrganization(t)}

\* ctx.currentClient
Clients ==
    [isAuthenticated : {FALSE}, userId : {"none"}]
    \cup [isAuthenticated : {TRUE}, userId : UserIds]

\* The mutation's arguments: rejected by mutationUpdateFundArgumentsSchema, or
\* input.id with the optional input.name and input.isTaxDeductible.
UpdateFundArgs ==
    [valid : {FALSE}, id : {"f0"}, name : {undefined}, isTaxDeductible : {undefined}]
    \cup [valid : {TRUE}, id : {"f1", "f3", "f0"},
          name : {undefined, Some("a"), Some("c")},
          isTaxDeductible : {undefined, Some(TRUE)}]

\* The calls made while other calls are in flight.
ConcurrentClients == [isAuthenticated : {TRUE}, userId : {"ga", "oa"}]
ConcurrentArgs ==
    [valid : {TRUE}, id : {"f1", "f2"},
     name : {undefined, Some("c")},
     isTaxDeductible : {undefined}]

NoCall == [client |-> [isAuthenticated |-> FALSE, userId |-> "none"],
           args |-> [valid |-> FALSE, id |-> "f0", name |-> undefined,
                     isTaxDeductible |-> undefined]]
NoResult == [code |-> "none", path |-> <<>>, fund |-> undefined]

\* throw new TalawaGraphQLError({extensions: {code, issues: [{argumentPath}]}})
Throw(code, path) == [code |-> code, path |-> path, fund |-> undefined]

\* An outcome of a synchronous stretch of the resolver: the next await, or the end.
Goto(label) == [pc |-> label, result |-> NoResult]
End(res) == [pc |-> "done", result |-> res]

\* Lines 252-278: authentication, then argument validation.
EntryChecks(client, args) ==
    IF ~client.isAuthenticated THEN End(Throw("unauthenticated", <<>>))
    ELSE IF ~args.valid THEN End(Throw("invalid_arguments", <<"input">>))
    ELSE Goto("lookups")

\* usersTable.findFirst({columns: {role}, where: id = currentUserId})
FindCurrentUser(userId) ==
    IF userId \in DOMAIN usersTable THEN Some([role |-> usersTable[userId]]) ELSE undefined

\* fundsTable.findFirst({columns: {organizationId}, with: the caller's memberships
\* in the fund's organization, where: id = input.id})
FindExistingFund(table, id, userId) ==
    IF id \in DOMAIN table
    THEN Some([organizationId |-> table[id].organizationId,
               organizationMembershipsWhereOrganization |->
                   IF <<userId, table[id].organizationId>> \in DOMAIN organizationMemberships
                   THEN <<[role |-> organizationMemberships[<<userId, table[id].organizationId>>]]>>
                   ELSE <<>>])
    ELSE undefined

\* Slip: both administrator roles are required instead of either.
Authorized_BothRoles(user, memberships) ==
    /\ user.role = "administrator"
    /\ memberships # <<>>
    /\ memberships[1].role = "administrator"

\* The authorization condition of lines 371-375, negated: the caller may update.
Authorized(user, memberships) ==
    ~(/\ user.role # "administrator"
      /\ (memberships = <<>> \/ memberships[1].role # "administrator"))

\* Lines 368-388: the authorization check, then on to the update.
Authorize(user, fund) ==
    IF Authorized(user, fund.organizationMembershipsWhereOrganization)
    THEN Goto("update")
    ELSE End(Throw("unauthorized_action_on_arguments_associated_resources", <<"input", "id">>))

\* Lines 312-336: after Promise.all, the user check, the fund check, then the
\* name query when a name was supplied, the authorization check otherwise.
AfterLookups(user, fund, args) ==
    IF user = undefined THEN End(Throw("unauthenticated", <<>>))
    ELSE IF fund = undefined
    THEN End(Throw("arguments_associated_resources_not_found", <<"input", "id">>))
    ELSE IF args.name # undefined THEN Goto("nameCheck")
    ELSE Authorize(user[1], fund[1])

\* Slip: the query looks for the name outside the fund's organization.
existingFundWithName_OtherOrganization(table, name, organizationId) ==
    \E f \in DOMAIN table :
        table[f].name = name /\ table[f].organizationId # organizationId

\* fundsTable.findFirst({where: name = input.name and organizationId =
\* existingFund.organizationId}) !== undefined
existingFundWithName(table, name, organizationId) ==
    \E f \in DOMAIN table :
        table[f].name = name /\ table[f].organizationId = organizationId

\* Slip: the authorization check runs before the name check's verdict.
AfterNameQuery_AuthorizesFirst(found, user, fund) ==
    IF ~Authorized(user, fund.organizationMembershipsWhereOrganization)
    THEN End(Throw("unauthorized_action_on_arguments_associated_resources", <<"input", "id">>))
    ELSE IF found
    THEN End(Throw("forbidden_action_on_arguments_associated_resources", <<"input", "name">>))
    ELSE Goto("update")

\* Lines 351-388: the name is taken, or on to the authorization check.
AfterNameQuery(found, user, fund) ==
    IF found
    THEN End(Throw("forbidden_action_on_arguments_associated_resources", <<"input", "name">>))
    ELSE Authorize(user, fund)

\* Slip: an isTaxDeductible that was not supplied is written as false.
SetColumns_ResetsFlag(row, args, userId) ==
    [row EXCEPT
        !.isTaxDeductible = IF args.isTaxDeductible = undefined THEN FALSE ELSE args.isTaxDeductible[1],
        !.name = IF args.name = undefined THEN @ ELSE args.name[1],
        !.updaterId = Some(userId)]

\* .set({isTaxDeductible, name, updaterId}): a key whose value is undefined is
\* left out of the SET clause.
SetColumns(row, args, userId) ==
    [row EXCEPT
        !.isTaxDeductible = IF args.isTaxDeductible = undefined THEN @ ELSE args.isTaxDeductible[1],
        !.name = IF args.name = undefined THEN @ ELSE args.name[1],
        !.updaterId = Some(userId)]

\* Variant: the update also requires the name to be free in the organization.
UpdatedRows_NameStillFree(table, args) ==
    {f \in DOMAIN table :
        /\ f = args.id
        /\ args.name # undefined =>
              ~\E g \in DOMAIN table \ {f} :
                  /\ table[g].organizationId = table[f].organizationId
                  /\ table[g].name = args.name[1]}

\* .where(eq(fundsTable.id, input.id)): the rows the update touches.
UpdatedRows(table, args) == {f \in DOMAIN table : f = args.id}

\* update(fundsTable).set(...).where(...): the table after the statement.
UpdateTable(table, args, userId) ==
    [f \in DOMAIN table |->
        IF f \in UpdatedRows(table, args) THEN SetColumns(table[f], args, userId)
        ELSE table[f]]

\* Slip: the result of returning() is passed on without the undefined check.
UpdateResult_Unchecked(table, args, userId) ==
    [code |-> "ok", path |-> <<>>,
     fund |-> IF args.id \in DOMAIN table
              THEN Some(SetColumns(table[args.id], args, userId))
              ELSE undefined]

\* .returning() and lines 401-410: the updated row, or the unexpected error.
UpdateResult(table, args, userId) ==
    IF UpdatedRows(table, args) = {}
    THEN Throw("unexpected", <<>>)
    ELSE [code |-> "ok", path |-> <<>>,
          fund |-> Some(UpdateTable(table, args, userId)[args.id])]

\* A client calls updateFund: the resolver runs to its first await.
Call(p, client, args) ==
    /\ pc[p] = "idle"
    /\ call' = [call EXCEPT ![p] = [client |-> client, args |-> args]]
    /\ pc' = [pc EXCEPT ![p] = EntryChecks(client, args).pc]
    /\ result' = [result EXCEPT ![p] = EntryChecks(client, args).result]
    /\ UNCHANGED <<funds, currentUser, existingFund, lookedUp, voteVars>>

\* Promise.all, first query: the caller's user record is read.
LookupUser(p) ==
    /\ pc[p] = "lookups"
    /\ "user" \notin lookedUp[p]
    /\ currentUser' = [currentUser EXCEPT ![p] = FindCurrentUser(call[p].client.userId)]
    /\ lookedUp' = [lookedUp EXCEPT ![p] = @ \cup {"user"}]
    /\ UNCHANGED <<funds, pc, call, existingFund, result, pre, voteVars>>

\* Promise.all, second query: the target fund is read.
LookupFund(p) ==
    /\ pc[p] = "lookups"
    /\ "fund" \notin lookedUp[p]
    /\ existingFund' = [existingFund EXCEPT ![p] =
            FindExistingFund(funds, call[p].args.id, call[p].client.userId)]
    /\ lookedUp' = [lookedUp EXCEPT ![p] = @ \cup {"fund"}]
    /\ UNCHANGED <<funds, pc, call, currentUser, result, pre, voteVars>>

\* Both queries have answered: the resolver runs on to its next await.
Join(p) ==
    /\ pc[p] = "lookups"
    /\ lookedUp[p] = {"user", "fund"}
    /\ pc' = [pc EXCEPT ![p] = AfterLookups(currentUser[p], existingFund[p], call[p].args).pc]
    /\ result' = [result EXCEPT ![p] =
            AfterLookups(currentUser[p], existingFund[p], call[p].args).result]
    /\ UNCHANGED <<funds, call, currentUser, existingFund, lookedUp, pre, voteVars>>

\* The name query is answered: forbidden, unauthorized, or on to the update.
NameQuery(p) ==
    /\ pc[p] = "nameCheck"
    /\ LET found == existingFundWithName(funds, call[p].args.name[1],
                                         existingFund[p][1].organizationId)
           out == AfterNameQuery(found, currentUser[p][1], existingFund[p][1])
       IN  /\ pc' = [pc EXCEPT ![p] = out.pc]
           /\ result' = [result EXCEPT ![p] = out.result]
    /\ UNCHANGED <<funds, call, currentUser, existingFund, lookedUp, pre, voteVars>>

\* The update statement runs and the resolver returns or throws.
Update(p) ==
    /\ pc[p] = "update"
    /\ funds' = UpdateTable(funds, call[p].args, call[p].client.userId)
    /\ result' = [result EXCEPT ![p] =
            UpdateResult(funds, call[p].args, call[p].client.userId)]
    /\ pc' = [pc EXCEPT ![p] = "done"]
    /\ UNCHANGED <<call, currentUser, existingFund, lookedUp, pre, voteVars>>

\* The response is sent; the process is free for the next call.
Return(p) ==
    /\ pc[p] = "done"
    /\ pc' = [pc EXCEPT ![p] = "idle"]
    /\ call' = [call EXCEPT ![p] = NoCall]
    /\ currentUser' = [currentUser EXCEPT ![p] = undefined]
    /\ existingFund' = [existingFund EXCEPT ![p] = undefined]
    /\ lookedUp' = [lookedUp EXCEPT ![p] = {}]
    /\ result' = [result EXCEPT ![p] = NoResult]
    /\ UNCHANGED <<funds, pre, voteVars>>

\* Another actor deletes a fund.
DeleteFund(f) ==
    /\ f \in DOMAIN funds
    /\ funds' = [g \in DOMAIN funds \ {f} |-> funds[g]]
    /\ UNCHANGED <<pc, call, currentUser, existingFund, lookedUp, result, pre, voteVars>>

(***************************************************************************)
(*                             Specifications                              *)
(***************************************************************************)

InitVotes == votes = EmptyBag /\ q = <<>>

\* The fund table the interleaved calls start from.
SeedFunds ==
    [f \in FundIds |->
        [name |-> IF f = "f2" THEN "b" ELSE "a", isTaxDeductible |-> FALSE,
         organizationId |-> FundOrganization[f], updaterId |-> NULL]]

InitCalls ==
    /\ pc = [p \in Procs |-> "idle"]
    /\ call = [p \in Procs |-> NoCall]
    /\ currentUser = [p \in Procs |-> undefined]
    /\ existingFund = [p \in Procs |-> undefined]
    /\ lookedUp = [p \in Procs |-> {}]
    /\ result = [p \in Procs |-> NoResult]

\* Calls of several clients with their steps interleaved, and fund deletions.
Init ==
    /\ InitVotes
    /\ InitCalls
    /\ funds = SeedFunds
    /\ pre = funds

Next ==
    \/ \E p \in Procs, client \in ConcurrentClients, args \in ConcurrentArgs :
          Call(p, client, args) /\ UNCHANGED pre
    \/ \E p \in Procs : LookupUser(p)
    \/ \E p \in Procs : LookupFund(p)
    \/ \E p \in Procs : Join(p)
    \/ \E p \in Procs : NameQuery(p)
    \/ \E p \in Procs : Update(p)
    \/ \E p \in Procs : Return(p)
    \/ \E f \in FundIds : DeleteFund(f)

Spec == Init /\ [][Next]_vars

\* Calls that run one at a time, each to its end, on any arguments.
SeqNext ==
    \/ \E client \in Clients, args \in UpdateFundArgs :
          Call("p1", client, args) /\ pre' = funds
    \/ LookupUser("p1")
    \/ LookupFund("p1")
    \/ Join("p1")
    \/ NameQuery("p1")
    \/ Update("p1")
    \/ Return("p1")

SeqInit ==
    /\ InitVotes
    /\ InitCalls
    /\ funds \in InitialFundTables
    /\ pre = funds

SpecSeq == SeqInit /\ [][SeqNext]_vars

\* upVoters requests against a vote table other actors insert into and delete from.
VotesInit ==
    /\ InitVotes
    /\ InitCalls
    /\ funds = SeedFunds
    /\ pre = funds

VotesNext ==
    \/ \E row \in VoteRows : InsertVote(row)
    \/ \E row \in VoteRows : DeleteVote(row)
    \/ \E parent \in ParentIds, args \in UpVotersArgs : UpVoters(parent, args)
    \/ Respond

SpecVotes == VotesInit /\ [][VotesNext]_vars

(***************************************************************************)
(*                      Properties of Comment.upVoters                     *)
(***************************************************************************)

\* The request being answered, its parsed arguments and its response.
Request == q[1]
Parsed == upVotersArgumentsSchema(q[1].args)
Response == q[1].response

\* The up-votes of the parent comment.
UpVotesOf(parent) == {r \in BagToSet(votes) : r.commentId = parent /\ r.type = "up_vote"}

\* The cursor's row is an up-vote of the parent comment.
CursorRowExists(parent, cursor) ==
    \E r \in UpVotesOf(parent) :
        r.createdAt = cursor.createdAt /\ r.creatorId = Some(cursor.creatorId)

\* No up-vote of the parent comment comes after the cursor in the traversal's order.
CursorIsLast(parent, cursor, isInversed) ==
    \A r \in UpVotesOf(parent) :
        ~orderBy([createdAt |-> cursor.createdAt, creatorId |-> Some(cursor.creatorId)],
                 r, isInversed)

\* C7: with valid arguments the resolver ends with
\* arguments_associated_resources_not_found, on argument path "after" (forward)
\* or "before" (inverse), exactly when a cursor was supplied and the query fetched
\* no row; that is the case when the cursor's row is no up-vote of the comment
\* and when the cursor points at the last row in the traversal's direction; a
\* request without a cursor never fails, and with no matching vote its connection
\* is empty.
C7_NotFoundIffCursorFetchesNothing ==
    (q # <<>> /\ Parsed.success) =>
        /\ Response.code \in {"ok", "arguments_associated_resources_not_found"}
        /\ (Response.code = "arguments_associated_resources_not_found")
              <=> (Parsed.cursor # undefined /\ Len(Response.commentVotes) = 0)
        /\ Response.code = "arguments_associated_resources_not_found"
              => Response.path = <<IF Parsed.isInversed THEN "before" ELSE "after">>
        /\ Parsed.cursor # undefined =>
              /\ ~CursorRowExists(Request.parent, Parsed.cursor[1])
                    => Response.code = "arguments_associated_resources_not_found"
              /\ (/\ CursorRowExists(Request.parent, Parsed.cursor[1])
                  /\ CursorIsLast(Request.parent, Parsed.cursor[1], Parsed.isInversed))
                    => Response.code = "arguments_associated_resources_not_found"
        /\ Parsed.cursor = undefined =>
              /\ Response.code = "ok"
              /\ UpVotesOf(Request.parent) = {} => Response.rawNodes = <<>>

\* C7's case: the cursor's row exists and is the last one in the direction.
C7_Witness ==
    /\ q # <<>>
    /\ Parsed.success
    /\ Parsed.cursor # undefined
    /\ CursorRowExists(Request.parent, Parsed.cursor[1])
    /\ CursorIsLast(Request.parent, Parsed.cursor[1], Parsed.isInversed)
    /\ Cardinality(UpVotesOf(Request.parent)) > 1
    /\ Response.code = "arguments_associated_resources_not_found"

\* The keys (createdAt, creatorId) of the reference list of C8: up-votes of the
\* parent with a non-null creatorId, strictly beyond the cursor when there is one.
ReferenceKeys(parent, cursor, isInversed) ==
    {[createdAt |-> r.createdAt, creatorId |-> r.creatorId] :
        r \in {x \in UpVotesOf(parent) :
                /\ x.creatorId # NULL
                /\ cursor # undefined =>
                      IF isInversed
                      THEN \/ x.createdAt > cursor[1].createdAt
                           \/ /\ x.createdAt = cursor[1].createdAt
                              /\ x.creatorId[1] > cursor[1].creatorId
                      ELSE \/ x.createdAt < cursor[1].createdAt
                           \/ /\ x.createdAt = cursor[1].createdAt
                              /\ x.creatorId[1] < cursor[1].creatorId}}

\* The reference list: the keys in descending (forward) or ascending (inverse) order.
ReferenceList(parent, cursor, isInversed) ==
    LET keys == ReferenceKeys(parent, cursor, isInversed) IN
    CHOOSE s \in [1..Cardinality(keys) -> keys] :
        \A i, j \in DOMAIN s :
            i < j =>
                LET lower == IF isInversed THEN s[i] ELSE s[j]
                    upper == IF isInversed THEN s[j] ELSE s[i]
                IN  \/ lower.createdAt < upper.createdAt
                    \/ /\ lower.createdAt = upper.createdAt
                       /\ lower.creatorId[1] < upper.creatorId[1]

\* C8: for every comment, table, limit, direction and optional cursor whose row
\* exists, the fetched rows are exactly the first `limit` rows of the reference list.
C8_FetchedRowsAreReferencePrefix ==
    (/\ q # <<>>
     /\ Parsed.success
     /\ Parsed.cursor # undefined => CursorRowExists(Request.parent, Parsed.cursor[1]))
    => LET ref == ReferenceList(Request.parent, Parsed.cursor, Parsed.isInversed)
           n == IF Len(ref) < Parsed.limit THEN Len(ref) ELSE Parsed.limit
       IN  /\ Len(Response.commentVotes) = n
           /\ \A k \in 1..n :
                 /\ Response.commentVotes[k].createdAt = ref[k].createdAt
                 /\ Response.commentVotes[k].creatorId = ref[k].creatorId

(***************************************************************************)
(*                    Properties of Mutation.updateFund                    *)
(***************************************************************************)

\* The caller is a global administrator or an administrator of the organization.
IsAdministratorFor(userId, organizationId) ==
    \/ (userId \in DOMAIN usersTable /\ usersTable[userId] = "administrator")
    \/ /\ <<userId, organizationId>> \in DOMAIN organizationMemberships
       /\ organizationMemberships[<<userId, organizationId>>] = "administrator"

\* A fund other than the target, of the target's organization, carries the new name.
NameUsedByOtherFund(table, args) ==
    /\ args.valid
    /\ args.id \in DOMAIN table
    /\ args.name # undefined
    /\ \E g \in DOMAIN table \ {args.id} :
          /\ table[g].organizationId = table[args.id].organizationId
          /\ table[g].name = args.name[1]

\* Some fund of the target's organization, the target included, carries the new name.
NameUsedInOrganization(table, args) ==
    /\ args.valid
    /\ args.id \in DOMAIN table
    /\ args.name # undefined
    /\ \E g \in DOMAIN table :
          /\ table[g].organizationId = table[args.id].organizationId
          /\ table[g].name = args.name[1]

\* The call of the sequential specification: authenticated, user record present,
\* arguments valid, target fund present when the call started.
ReachesNameCheck ==
    /\ call["p1"].client.isAuthenticated
    /\ call["p1"].client.userId \in DOMAIN usersTable
    /\ call["p1"].args.valid
    /\ call["p1"].args.id \in DOMAIN pre

\* C1: calls that run one at a time keep fund names unique within each
\* organization: a call whose new name is used by a different fund of the target's
\* organization writes nothing and fails, with
\* forbidden_action_on_arguments_associated_resources on [input, name] once it has
\* passed authentication, validation and the two lookups.
C1_SequentialCallsKeepNamesUnique ==
    /\ NamesUniquePerOrganization(funds)
    /\ (pc["p1"] = "done" /\ NameUsedByOtherFund(pre, call["p1"].args)) =>
          /\ funds = pre
          /\ result["p1"].code # "ok"
          /\ ReachesNameCheck =>
                /\ result["p1"].code = "forbidden_action_on_arguments_associated_resources"
                /\ result["p1"].path = <<"input", "name">>

\* C1's case: a rename to the name of a different fund of the organization was refused.
C1_Witness ==
    /\ pc["p1"] = "done"
    /\ ReachesNameCheck
    /\ NameUsedByOtherFund(pre, call["p1"].args)
    /\ result["p1"].code = "forbidden_action_on_arguments_associated_resources"

\* C2: a call by an authenticated, authorized caller on an existing fund succeeds
\* when the supplied name is the fund's own current name, and when no fund of the
\* organization uses it.
C2_OwnOrUnusedNameSucceeds ==
    (/\ pc["p1"] = "done"
     /\ ReachesNameCheck
     /\ IsAdministratorFor(call["p1"].client.userId, pre[call["p1"].args.id].organizationId)
     /\ call["p1"].args.name # undefined
     /\ \/ pre[call["p1"].args.id].name = call["p1"].args.name[1]
        \/ ~NameUsedInOrganization(pre, call["p1"].args))
    => /\ result["p1"].code = "ok"
       /\ result["p1"].fund = Some(funds[call["p1"].args.id])

\* C4: for an authenticated caller whose user record exists, valid arguments, an
\* existing fund and a name (if any) that no fund of the organization carries, the
\* call writes the fund exactly when the caller is a global administrator or an
\* administrator of the fund's organization; otherwise it ends with
\* unauthorized_action_on_arguments_associated_resources on [input, id] and the
\* fund table is unchanged.
C4_WritesIffAdministrator ==
    (/\ pc["p1"] = "done"
     /\ ReachesNameCheck
     /\ ~NameUsedInOrganization(pre, call["p1"].args))
    => LET args == call["p1"].args
           userId == call["p1"].client.userId
       IN  IF IsAdministratorFor(userId, pre[args.id].organizationId)
           THEN /\ result["p1"].code = "ok"
                /\ funds[args.id].updaterId = Some(userId)
                /\ result["p1"].fund = Some(funds[args.id])
           ELSE /\ result["p1"].code = "unauthorized_action_on_arguments_associated_resources"
                /\ result["p1"].path = <<"input", "id">>
                /\ funds = pre

\* C4's cases: a global administrator without membership has written, and an
\* organization administrator whose global role is regular has written.
C4_Witness ==
    /\ pc["p1"] = "done"
    /\ ReachesNameCheck
    /\ ~NameUsedInOrganization(pre, call["p1"].args)
    /\ call["p1"].client.userId = "oa"
    /\ usersTable["oa"] # "administrator"
    /\ result["p1"].code = "ok"
    /\ funds # pre

\* C5: a successful call changes only the supplied fields of the target fund and
\* its updaterId: name stays when only isTaxDeductible is supplied, isTaxDeductible
\* stays when only name is supplied, updaterId becomes the caller's id, the
\* organization stays, every other fund stays, and the updated row is returned.
C5_OnlySuppliedFieldsChange ==
    (pc["p1"] = "done" /\ result["p1"].code = "ok") =>
        LET args == call["p1"].args
            old == pre[args.id]
            new == funds[args.id]
        IN  /\ DOMAIN funds = DOMAIN pre
            /\ \A f \in DOMAIN pre \ {args.id} : funds[f] = pre[f]
            /\ new.name = (IF args.name = undefined THEN old.name ELSE args.name[1])
            /\ new.isTaxDeductible =
                  (IF args.isTaxDeductible = undefined THEN old.isTaxDeductible
                   ELSE args.isTaxDeductible[1])
            /\ new.updaterId = Some(call["p1"].client.userId)
            /\ new.organizationId = old.organizationId
            /\ result["p1"].fund = Some(new)

\* C5's case: only isTaxDeductible was supplied, by a caller other than the last updater.
C5_Witness ==
    /\ pc["p1"] = "done"
    /\ result["p1"].code = "ok"
    /\ call["p1"].args.name = undefined
    /\ call["p1"].args.isTaxDeductible = Some(TRUE)
    /\ pre[call["p1"].args.id].isTaxDeductible = FALSE
    /\ pre[call["p1"].args.id].updaterId # Some(call["p1"].client.userId)
    /\ pre[call["p1"].args.id].updaterId # NULL

\* The failure conditions of C10, in the order of the steps that report them.
FailureConditions(c, table) ==
    LET userExists == c.client.isAuthenticated /\ c.client.userId \in DOMAIN usersTable
        fundExists == c.args.valid /\ c.args.id \in DOMAIN table
    IN  <<~c.client.isAuthenticated,
          ~c.args.valid,
          c.client.isAuthenticated /\ ~userExists,
          c.args.valid /\ ~fundExists,
          NameUsedByOtherFund(table, c.args),
          /\ userExists
          /\ fundExists
          /\ ~IsAdministratorFor(c.client.userId, table[c.args.id].organizationId)>>

FailureCodes ==
    <<"unauthenticated",
      "invalid_arguments",
      "unauthenticated",
      "arguments_associated_resources_not_found",
      "forbidden_action_on_arguments_associated_resources",
      "unauthorized_action_on_arguments_associated_resources">>

\* C10: when several failure conditions of one call hold at once the call reports
\* the error of the earliest step and writes nothing; a caller who is not
\* authorized and supplies a name already used in the fund's organization gets
\* the forbidden error, not the unauthorized one.
C10_EarliestFailureIsReported ==
    pc["p1"] = "done" =>
        LET conds == FailureConditions(call["p1"], pre)
            failing == {i \in DOMAIN conds : conds[i]}
            first == CHOOSE i \in failing : \A j \in failing : i <= j
        IN  /\ Cardinality(failing) >= 2 =>
                  /\ result["p1"].code = FailureCodes[first]
                  /\ funds = pre
            /\ (conds[6] /\ NameUsedInOrganization(pre, call["p1"].args)) =>
                  /\ result["p1"].code = "forbidden_action_on_arguments_associated_resources"
                  /\ funds = pre

\* C10's case: the name is taken by another fund and the caller is not authorized.
C10_Witness ==
    /\ pc["p1"] = "done"
    /\ FailureConditions(call["p1"], pre)[5]
    /\ FailureConditions(call["p1"], pre)[6]
    /\ result["p1"].code = "forbidden_action_on_arguments_associated_resources"

\* C3: a call that has passed the name check applies its write without checking
\* again: when by then another fund of the organization carries the name (written
\* by a call that passed the check at the same time), the step yields two funds
\* of one organization with the same name.
C3_RacingWritesAreBothApplied ==
    [][\A p \in Procs :
         (/\ pc[p] = "update"
          /\ pc'[p] = "done"
          /\ NameUsedByOtherFund(funds, call[p].args))
         => /\ result'[p].code = "ok"
            /\ NameUsedByOtherFund(funds', call[p].args)
            /\ funds'[call[p].args.id].name = call[p].args.name[1]
            /\ ~NamesUniquePerOrganization(funds')]_vars

\* C3's case: two calls on different funds of one organization, same new name
\* that no fund used, both applied: two funds of the organization share the name.
C3_Witness ==
    /\ pc["p1"] = "done" /\ pc["p2"] = "done"
    /\ result["p1"].code = "ok" /\ result["p2"].code = "ok"
    /\ call["p1"].args.id # call["p2"].args.id
    /\ call["p1"].args.name = call["p2"].args.name
    /\ call["p1"].args.name # undefined
    /\ \A f \in FundIds : SeedFunds[f].name # call["p1"].args.name[1]
    /\ {call["p1"].args.id, call["p2"].args.id} \subseteq DOMAIN funds
    /\ funds[call["p1"].args.id].organizationId = funds[call["p2"].args.id].organizationId
    /\ funds[call["p1"].args.id].name = funds[call["p2"].args.id].name
    /\ ~NamesUniquePerOrganization(funds)

\* C6: when the target fund was found by the lookup and is gone when the update
\* statement runs, the call ends with the error code unexpected, returns no fund,
\* and no fund row is created or modified.
C6_DeletedFundGivesUnexpected ==
    [][\A p \in Procs :
         (/\ pc[p] = "update"
          /\ pc'[p] = "done"
          /\ existingFund[p] # undefined
          /\ call[p].args.id \notin DOMAIN funds)
         => /\ result'[p].code = "unexpected"
            /\ result'[p].fund = undefined
            /\ funds' = funds]_vars

\* C6's case: a call whose lookup found the fund ended with unexpected.
C6_Witness ==
    \E p \in Procs :
        /\ pc[p] = "done"
        /\ existingFund[p] # undefined
        /\ call[p].args.id \notin DOMAIN funds
        /\ result[p].code = "unexpected"

=============================================================================
